---- MODULE Spec2Model ----
(***************************************************************************)
(* PoultryScale: the weighing session of the measurement screen, the       *)
(* aggregates of the report screen and the sale history kept in            *)
(* AsyncStorage.                                                           *)
(*                                                                         *)
(* Numbers.  A JavaScript number is modelled as a record                   *)
(*     [k |-> "fin", n |-> numerator, d |-> denominator]   (n/d, reduced)  *)
(*     [k |-> "inf", n |-> 1 or -1, d |-> 1]               (+-Infinity)    *)
(*     [k |-> "nan", ...]                                  (NaN)           *)
(*     [k |-> "null", ...]      (the JSON null a non-finite number becomes)*)
(* Finite values are exact rationals: the rounding of IEEE-754 doubles is  *)
(* not modelled.  Texts (the contents of a text field) are sequences of    *)
(* one-character strings over the characters the parsers below recognise:  *)
(* space, sign, digits, ".", and any other character as a non-numeric one  *)
(* (the exponent letter of parseFloat is outside the alphabet).  The two   *)
(* text fields of the measurement screen are read by handleAddRow alone:   *)
(* their texts are the inputs of that handler and no variable of the       *)
(* model.                                                                  *)
(***************************************************************************)
EXTENDS Integers, Sequences, FiniteSets, TLC

(***************************************************************************)
(* Bounds of the model.                                                    *)
(***************************************************************************)
MaxRows == 2
MaxIds == 3
MaxClock == 1
MaxCalls == 1
MaxRacing == 2

VARIABLES
    platform,     \* Platform.OS: "web" or "native"
    cap,          \* the number of storage calls a run lets be in flight at a
                  \* time: MaxCalls, MaxRacing where calls are to race
    stack,        \* the navigation stack of routes, its top last
    rows,         \* MeasurementScreen: useState<MeasurementRow[]>
    params,       \* ReportScreen: the route's rows parameter, <<>> when absent
    reportNow,    \* ReportScreen: const now = Date.now()
    sales,        \* HomeScreen: useState<SaleRecord[]>
    loading,      \* HomeScreen: useState(true)
    storage,      \* AsyncStorage under SALES_KEY, <<>> when never written
    calls,        \* the storage calls in flight, in the order they were started
    alert,        \* the Alert dialog on display
    nextId,       \* the number of ids Crypto.randomUUID() has handed out, plus one
    clock,        \* Date.now()
    ev            \* the handler that ran last, the haptic it asked for (of a
                  \* rejected call: the error) and, for handleAddRow, the
                  \* texts of the two fields it read

sessionVars == <<rows>>
reportVars == <<params, reportNow>>
homeVars == <<sales, loading>>
storeVars == <<storage, calls>>
vars == <<platform, cap, stack, sessionVars, reportVars, homeVars, storeVars,
          alert, nextId, clock, ev>>

(***************************************************************************)
(* JavaScript numbers.                                                     *)
(***************************************************************************)
Abs(x) == IF x < 0 THEN -x ELSE x

RECURSIVE GCD(_, _)
GCD(a, b) == IF b = 0 THEN a ELSE GCD(b, a % b)

NaN == [k |-> "nan", n |-> 0, d |-> 1]
Null == [k |-> "null", n |-> 0, d |-> 1]
Inf(sgn) == [k |-> "inf", n |-> sgn, d |-> 1]
Fin(n, d) ==
    LET g == GCD(Abs(n), d)
    IN  [k |-> "fin", n |-> n \div g, d |-> d \div g]
Whole(n) == Fin(n, 1)

\* ToNumber: null is 0 in arithmetic and in comparisons
ToNumber(a) == IF a.k = "null" THEN Whole(0) ELSE a

\* isNaN(a)
IsNaN(a) == ToNumber(a).k = "nan"

\* a > 0 and a <= 0: both are false of NaN
Gt0(a) == LET x == ToNumber(a) IN x.k # "nan" /\ x.n > 0
Le0(a) == LET x == ToNumber(a) IN x.k # "nan" /\ x.n <= 0

\* a + b
NumAdd(a, b) ==
    LET x == ToNumber(a)
        y == ToNumber(b)
    IN  IF x.k = "nan" \/ y.k = "nan" THEN NaN
        ELSE IF x.k = "inf" /\ y.k = "inf"
             THEN IF x.n = y.n THEN x ELSE NaN
        ELSE IF x.k = "inf" THEN x
        ELSE IF y.k = "inf" THEN y
        ELSE Fin(x.n * y.d + y.n * x.d, x.d * y.d)

\* a / b for b >= 0 (the code divides by a count)
NumDiv(a, b) ==
    LET x == ToNumber(a)
        y == ToNumber(b)
    IN  IF x.k = "nan" \/ y.k = "nan" THEN NaN
        ELSE IF x.k = "inf" THEN IF y.k = "inf" THEN NaN ELSE x
        ELSE IF y.k = "inf" THEN Whole(0)
        ELSE IF y.n = 0 THEN IF x.n = 0 THEN NaN ELSE Inf(IF x.n < 0 THEN -1 ELSE 1)
        ELSE Fin(x.n * y.d, x.d * y.n)

(***************************************************************************)
(* lib/utils.ts                                                            *)
(***************************************************************************)
GramsPerKg == 1000

\* Math.round mistaken for Math.floor
MathFloor(a) ==
    LET x == ToNumber(a)
    IN  IF x.k = "fin" THEN Whole(x.n \div x.d) ELSE x

\* Math.round(x): the integer nearest to x, a half rounded up
MathRound(a) ==
    LET x == ToNumber(a)
    IN  IF x.k = "fin" THEN Whole((2 * x.n + x.d) \div (2 * x.d)) ELSE x

\* kg * 1000
TimesGrams(a) ==
    LET x == ToNumber(a)
    IN  IF x.k = "fin" THEN Fin(x.n * GramsPerKg, x.d) ELSE x

kgToGrams(kg) == MathRound(TimesGrams(kg))

(***************************************************************************)
(* parseFloat and parseInt(_, 10) on a text.                               *)
(***************************************************************************)
Digits == {"0", "1", "2", "3", "4", "5", "6", "7", "8", "9"}
DigitVal(c) ==
    CASE c = "0" -> 0 [] c = "1" -> 1 [] c = "2" -> 2 [] c = "3" -> 3
      [] c = "4" -> 4 [] c = "5" -> 5 [] c = "6" -> 6 [] c = "7" -> 7
      [] c = "8" -> 8 [] c = "9" -> 9

Drop(s, k) == SubSeq(s, k + 1, Len(s))

RECURSIVE SkipWhiteSpace(_)
SkipWhiteSpace(s) ==
    IF s # <<>> /\ Head(s) = " " THEN SkipWhiteSpace(Tail(s)) ELSE s

\* the length of the longest prefix of s made of digits
RECURSIVE DigitPrefixLen(_)
DigitPrefixLen(s) ==
    IF s # <<>> /\ Head(s) \in Digits THEN 1 + DigitPrefixLen(Tail(s)) ELSE 0

\* the value of a sequence of digits, acc being the value read so far
RECURSIVE DigitsValue(_, _)
DigitsValue(s, acc) ==
    IF s = <<>> THEN acc ELSE DigitsValue(Tail(s), 10 * acc + DigitVal(Head(s)))

RECURSIVE Pow10(_)
Pow10(k) == IF k = 0 THEN 1 ELSE 10 * Pow10(k - 1)

HasSign(s) == s # <<>> /\ Head(s) \in {"+", "-"}
SignOf(s) == IF s # <<>> /\ Head(s) = "-" THEN -1 ELSE 1

InfinityText == <<"I", "n", "f", "i", "n", "i", "t", "y">>
StartsWith(s, p) == Len(s) >= Len(p) /\ SubSeq(s, 1, Len(p)) = p

parseFloat(text) ==
    LET t == SkipWhiteSpace(text)
        sgn == SignOf(t)
        u == IF HasSign(t) THEN Tail(t) ELSE t
        il == DigitPrefixLen(u)
        r == Drop(u, il)
        fl == IF r # <<>> /\ Head(r) = "." THEN DigitPrefixLen(Tail(r)) ELSE 0
        ip == SubSeq(u, 1, il)
        fp == SubSeq(u, il + 2, il + 1 + fl)
    IN  IF StartsWith(u, InfinityText) THEN Inf(sgn)
        ELSE IF il = 0 /\ fl = 0 THEN NaN
        ELSE Fin(sgn * (DigitsValue(ip, 0) * Pow10(fl) + DigitsValue(fp, 0)),
                 Pow10(fl))

parseInt(text) ==
    LET t == SkipWhiteSpace(text)
        sgn == SignOf(t)
        u == IF HasSign(t) THEN Tail(t) ELSE t
        il == DigitPrefixLen(u)
    IN  IF il = 0 THEN NaN ELSE Whole(sgn * DigitsValue(SubSeq(u, 1, il), 0))

(***************************************************************************)
(* MeasurementScreen: the derived totals of a render.                      *)
(***************************************************************************)
\* a reduce that stops one element short
RECURSIVE ReduceButLast(_, _)
ReduceButLast(xs, acc) ==
    IF Len(xs) <= 1 THEN acc ELSE ReduceButLast(Tail(xs), NumAdd(acc, Head(xs)))

\* xs.reduce((sum, r) => sum + r.<field>, acc) over the values of the field
RECURSIVE Reduce(_, _)
Reduce(xs, acc) ==
    IF xs = <<>> THEN acc ELSE Reduce(Tail(xs), NumAdd(acc, Head(xs)))

WeightsOf(rs) == [i \in 1..Len(rs) |-> rs[i].weightKg]
PcsOf(rs) == [i \in 1..Len(rs) |-> rs[i].pcs]

\* an average without the guard against a count of 0
AverageUnguarded(tw, tp) == NumDiv(tw, tp)

TotalWeightOf(rs) == Reduce(WeightsOf(rs), Whole(0))
TotalPcsOf(rs) == Reduce(PcsOf(rs), Whole(0))
\* totalPcs > 0 ? totalWeight / totalPcs : 0
AverageOf(tw, tp) == IF Gt0(tp) THEN NumDiv(tw, tp) ELSE Whole(0)

totalWeight == TotalWeightOf(rows)
totalPcs == TotalPcsOf(rows)
avgWeight == AverageOf(totalWeight, totalPcs)


(***************************************************************************)
(* JSON.stringify and JSON.parse.  A JSON text is modelled by the value    *)
(* it denotes: stringify turns every non-finite number into null, parse    *)
(* gives back the value the text denotes.  A text that is no JSON (ok is   *)
(* FALSE) makes JSON.parse throw a SyntaxError.                            *)
(***************************************************************************)
JsonNumber(a) == IF a.k = "fin" THEN a ELSE Null

JsonRow(r) ==
    [id |-> r.id, weightKg |-> JsonNumber(r.weightKg), pcs |-> JsonNumber(r.pcs),
     timestamp |-> r.timestamp]
JsonRows(rs) == [i \in 1..Len(rs) |-> JsonRow(rs[i])]

JsonSale(s) ==
    [id |-> s.id,
     totalWeightKg |-> JsonNumber(s.totalWeightKg),
     totalWeightGrams |-> JsonNumber(s.totalWeightGrams),
     totalPcs |-> JsonNumber(s.totalPcs),
     averageWeightKg |-> JsonNumber(s.averageWeightKg),
     averageWeightGrams |-> JsonNumber(s.averageWeightGrams),
     rows |-> JsonRows(s.rows),
     createdAt |-> s.createdAt]
JsonSales(ss) == [i \in 1..Len(ss) |-> JsonSale(ss[i])]

StringifyRows(rs) == [ok |-> TRUE, json |-> JsonRows(rs)]
StringifySales(ss) == [ok |-> TRUE, json |-> JsonSales(ss)]
JSONparse(text) == text.json
\* JSON.parse(text) throws
SyntaxError(text) == ~text.ok
\* a text that is no JSON
CorruptText == [ok |-> FALSE, json |-> <<>>]

(***************************************************************************)
(* Navigation, alerts and feedback.                                        *)
(***************************************************************************)
Top == stack[Len(stack)]
Alert(kind, id, captured) == [kind |-> kind, id |-> id, rows |-> captured]
NoAlert == Alert("none", 0, <<>>)

Event(op, fb) == [op |-> op, fb |-> fb, weightInput |-> <<>>, pcsInput |-> <<>>]
AddEvent(fb, weightInput, pcsInput) ==
    [op |-> "handleAddRow", fb |-> fb, weightInput |-> weightInput,
     pcsInput |-> pcsInput]
\* a haptic is asked for on every platform but the web
Haptic(kind) == IF platform # "web" THEN kind ELSE "none"

\* an id taken from the time of day
clockUUID == clock

\* Crypto.randomUUID(): an id never handed out before
randomUUID == nextId

\* a storage call as it starts: loadSales is its first step, at getItem;
\* data is what getItem resolved with, val what the call computed from it
Call(op, arg) ==
    [op |-> op, pc |-> "getItem", arg |-> arg, data |-> <<>>, val |-> <<>>]

\* HomeScreen's useFocusEffect: loadSales() is started when Home gains focus
FocusCalls(cs, gainsFocus) == IF gainsFocus THEN Append(cs, Call("load", 0)) ELSE cs

\* the MeasurementScreen state is gone with its route
SessionAfter(newStack) ==
    IF \E i \in 1..Len(newStack) : newStack[i] = "measurement"
    THEN UNCHANGED sessionVars
    ELSE rows' = <<>>

ReportAfter(newStack) ==
    IF \E i \in 1..Len(newStack) : newStack[i] = "report"
    THEN UNCHANGED reportVars
    ELSE params' = <<>> /\ reportNow' = 0

\* the stack becomes newStack: routes off the stack lose their state and
\* Home, when it comes back on top, starts a load
Navigate(newStack, cs) ==
    LET gainsFocus == Top # "home" /\ newStack[Len(newStack)] = "home"
    IN  /\ gainsFocus => Len(cs) < cap
        /\ stack' = newStack
        /\ calls' = FocusCalls(cs, gainsFocus)
        /\ SessionAfter(newStack)
        /\ ReportAfter(newStack)

\* router.back()
BackStack == IF Len(stack) > 1 THEN SubSeq(stack, 1, Len(stack) - 1) ELSE stack
\* router.dismissAll()
DismissAllStack == <<"home">>

(***************************************************************************)
(* The handlers of MeasurementScreen.                                      *)
(***************************************************************************)
\* a validation that lets a zero through, and one that forgets the count
RejectsNegative(weight, pcs) ==
    \/ IsNaN(weight) \/ (Le0(weight) /\ ~(ToNumber(weight).n = 0))
    \/ IsNaN(pcs) \/ (Le0(pcs) /\ ~(ToNumber(pcs).n = 0))
RejectsWeightOnly(weight, pcs) == IsNaN(weight) \/ Le0(weight) \/ IsNaN(pcs)

\* the validation of handleAddRow: TRUE when the input is turned down
Rejects(weight, pcs) == IsNaN(weight) \/ Le0(weight) \/ IsNaN(pcs) \/ Le0(pcs)

\* a row stamped with the time left instead of the time
NewRowCountingDown(weight, pcs) ==
    [id |-> randomUUID, weightKg |-> weight, pcs |-> pcs,
     timestamp |-> MaxClock - clock]

NewRow(weight, pcs) ==
    [id |-> randomUUID, weightKg |-> weight, pcs |-> pcs, timestamp |-> clock]

\* the new row put last
PutLast(newRow, prev) == Append(prev, newRow)

\* setRows((prev) => [newRow, ...prev])
Prepend(newRow, prev) == <<newRow>> \o prev

\* handleAddRow, weightInput and pcsInput being the state of the two text
\* fields in the render it closed over
HandleAddRow(weightInput, pcsInput) ==
    /\ Top = "measurement" /\ alert = NoAlert
    /\ LET weight == parseFloat(weightInput)
           pcs == parseInt(pcsInput)
       IN  IF Rejects(weight, pcs)
           THEN /\ ev' = AddEvent(Haptic("error"), weightInput, pcsInput)
                /\ UNCHANGED <<rows, nextId>>
           ELSE /\ Len(rows) < MaxRows /\ nextId <= MaxIds
                /\ rows' = Prepend(NewRow(weight, pcs), rows)
                /\ nextId' = nextId + 1
                /\ ev' = AddEvent(Haptic("light"), weightInput, pcsInput)
    /\ UNCHANGED <<platform, cap, stack, reportVars, homeVars, storeVars, alert, clock>>

\* the oldest row dropped in place of the newest
DropLast(prev) == IF prev = <<>> THEN <<>> ELSE SubSeq(prev, 1, Len(prev) - 1)

\* prev.slice(1)
Slice1(prev) == IF prev = <<>> THEN <<>> ELSE Tail(prev)

\* handleDeleteLast without its check of an empty list
HandleDeleteLastUnguarded ==
    /\ Top = "measurement" /\ alert = NoAlert
    /\ IF platform = "web"
       THEN rows' = Slice1(rows) /\ UNCHANGED alert
       ELSE alert' = Alert("undo", 0, <<>>) /\ UNCHANGED rows
    /\ ev' = Event("handleDeleteLast", "none")
    /\ UNCHANGED <<platform, cap, stack, reportVars, homeVars, storeVars, nextId, clock>>

HandleDeleteLast ==
    /\ Top = "measurement" /\ alert = NoAlert
    /\ IF rows = <<>>
       THEN UNCHANGED <<rows, alert>>
       ELSE IF platform = "web"
            THEN rows' = Slice1(rows) /\ UNCHANGED alert
            ELSE alert' = Alert("undo", 0, <<>>) /\ UNCHANGED rows
    /\ ev' = Event("handleDeleteLast", "none")
    /\ UNCHANGED <<platform, cap, stack, reportVars, homeVars,
                   storeVars, nextId, clock>>

\* the "Remove" button of the undo alert
UndoRemove ==
    /\ alert.kind = "undo"
    /\ rows' = Slice1(rows)
    /\ alert' = NoAlert
    /\ ev' = Event("undoRemove", "success")
    /\ UNCHANGED <<platform, cap, stack, reportVars, homeVars,
                   storeVars, nextId, clock>>

\* doEnd of handleEndMeasurement, with the rows of the render it closed over
DoEnd(captured) ==
    /\ stack' = Append(stack, "report")
    /\ params' = <<StringifyRows(captured)>>
    /\ reportNow' = clock
    /\ ev' = Event("doEnd", Haptic("heavy"))
    /\ UNCHANGED <<platform, cap, sessionVars, homeVars, storeVars, nextId, clock>>

\* handleEndMeasurement without its check of an empty list
HandleEndMeasurementUnguarded ==
    /\ Top = "measurement" /\ alert = NoAlert
    /\ IF platform = "web"
       THEN DoEnd(rows) /\ UNCHANGED alert
       ELSE /\ alert' = Alert("end", 0, rows)
            /\ ev' = Event("handleEndMeasurement", "none")
            /\ UNCHANGED <<platform, cap, stack, sessionVars, reportVars, homeVars,
                           storeVars, nextId, clock>>

HandleEndMeasurement ==
    /\ Top = "measurement" /\ alert = NoAlert
    /\ IF rows = <<>>
       THEN /\ alert' = IF platform = "web" THEN alert ELSE Alert("nodata", 0, <<>>)
            /\ ev' = Event("handleEndMeasurement", "none")
            /\ UNCHANGED <<platform, cap, stack, sessionVars, reportVars, homeVars,
                           storeVars, nextId, clock>>
       ELSE IF platform = "web"
            THEN DoEnd(rows) /\ UNCHANGED alert
            ELSE /\ alert' = Alert("end", 0, rows)
                 /\ ev' = Event("handleEndMeasurement", "none")
                 /\ UNCHANGED <<platform, cap, stack, sessionVars, reportVars, homeVars,
                                storeVars, nextId, clock>>

\* the "Finish" button of the end alert
EndFinish ==
    /\ alert.kind = "end"
    /\ alert' = NoAlert
    /\ DoEnd(alert.rows)

\* handleBack of MeasurementScreen
MeasurementBack ==
    /\ Top = "measurement" /\ alert = NoAlert
    /\ ev' = Event("measurementBack", "none")
    /\ IF rows # <<>> /\ platform # "web"
       THEN /\ alert' = Alert("discard", 0, <<>>)
            /\ UNCHANGED <<stack, sessionVars, reportVars, calls>>
       ELSE /\ Navigate(BackStack, calls)
            /\ UNCHANGED alert
    /\ UNCHANGED <<platform, cap, homeVars, storage, nextId, clock>>

\* the "Discard" button of the discard alert
DiscardConfirm ==
    /\ alert.kind = "discard"
    /\ alert' = NoAlert
    /\ Navigate(BackStack, calls)
    /\ ev' = Event("discardConfirm", "none")
    /\ UNCHANGED <<platform, cap, homeVars, storage, nextId, clock>>

\* the cancel button of an alert (the only button of the "No Data" alert)
AlertCancel ==
    /\ alert # NoAlert
    /\ alert' = NoAlert
    /\ ev' = Event("alertCancel", "none")
    /\ UNCHANGED <<platform, cap, stack, sessionVars, reportVars, homeVars, storeVars,
                   nextId, clock>>

(***************************************************************************)
(* ReportScreen: the aggregates of a render, and its handlers.             *)
(***************************************************************************)
\* params.rows ? JSON.parse(params.rows) : []
reportRows == IF params # <<>> THEN JSONparse(params[1]) ELSE <<>>
totalWeightKg == TotalWeightOf(reportRows)
reportTotalPcs == TotalPcsOf(reportRows)
avgWeightKg == AverageOf(totalWeightKg, reportTotalPcs)
totalWeightGrams == kgToGrams(totalWeightKg)
avgWeightGrams == kgToGrams(avgWeightKg)

\* a SaleRecord with the average's grams in the total's place
NewSaleMixedUp ==
    [id |-> randomUUID,
     totalWeightKg |-> totalWeightKg,
     totalWeightGrams |-> avgWeightGrams,
     totalPcs |-> reportTotalPcs,
     averageWeightKg |-> avgWeightKg,
     averageWeightGrams |-> avgWeightGrams,
     rows |-> reportRows,
     createdAt |-> reportNow]

\* the SaleRecord handleSave builds
NewSale ==
    [id |-> randomUUID,
     totalWeightKg |-> totalWeightKg,
     totalWeightGrams |-> totalWeightGrams,
     totalPcs |-> reportTotalPcs,
     averageWeightKg |-> avgWeightKg,
     averageWeightGrams |-> avgWeightGrams,
     rows |-> reportRows,
     createdAt |-> reportNow]

\* handleSave up to its await: the sale is built and saveSale(sale) is started
HandleSave ==
    /\ Top = "report" /\ alert = NoAlert
    /\ Len(calls) < cap /\ nextId <= MaxIds
    /\ calls' = Append(calls, Call("save", NewSale))
    /\ nextId' = nextId + 1
    /\ ev' = Event("handleSave", "none")
    /\ UNCHANGED <<platform, cap, stack, sessionVars, reportVars, homeVars, storage,
                   alert, clock>>

\* a Back that takes the session with it
ReportBackDiscards ==
    /\ Top = "report" /\ alert = NoAlert
    /\ stack' = BackStack
    /\ calls' = FocusCalls(calls, BackStack[Len(BackStack)] = "home")
    /\ rows' = <<>>
    /\ params' = <<>> /\ reportNow' = 0
    /\ ev' = Event("reportBack", "none")
    /\ UNCHANGED <<platform, cap, homeVars, storage, alert, nextId, clock>>

\* handleBack of ReportScreen
ReportBack ==
    /\ Top = "report" /\ alert = NoAlert
    /\ Navigate(BackStack, calls)
    /\ ev' = Event("reportBack", "none")
    /\ UNCHANGED <<platform, cap, homeVars, storage, alert, nextId, clock>>

\* the /report route opened with no rows parameter
OpenReport ==
    /\ Top = "home" /\ alert = NoAlert
    /\ stack' = Append(stack, "report")
    /\ params' = <<>>
    /\ reportNow' = clock
    /\ ev' = Event("openReport", "none")
    /\ UNCHANGED <<platform, cap, sessionVars, homeVars, storeVars, alert, nextId, clock>>

(***************************************************************************)
(* lib/storage.ts: the steps of the calls in flight.                       *)
(***************************************************************************)
\* a loadSales that makes up a sale when nothing is stored
LoadedSalesOrBlank(data) ==
    IF data = <<>>
    THEN <<[id |-> 0, totalWeightKg |-> Whole(0), totalWeightGrams |-> Whole(0),
            totalPcs |-> Whole(0), averageWeightKg |-> Whole(0),
            averageWeightGrams |-> Whole(0), rows |-> <<>>, createdAt |-> 0]>>
    ELSE JSONparse(data[1])

\* loadSales, from the data getItem resolved with
LoadedSales(data) == IF data = <<>> THEN <<>> ELSE JSONparse(data[1])

\* the sale put last
Push(ss, sale) == Append(ss, sale)

\* sales.unshift(sale)
Unshift(ss, sale) == <<sale>> \o ss

\* a filter that keeps the sale it is to remove, and one that removes the
\* newest sale when there is none of the id
KeepOnly(ss, id) == SelectSeq(ss, LAMBDA s : s.id = id)
FilterOutOrNewest(ss, id) ==
    IF \E j \in 1..Len(ss) : ss[j].id = id
    THEN SelectSeq(ss, LAMBDA s : s.id # id)
    ELSE IF ss = <<>> THEN <<>> ELSE Tail(ss)

\* sales.filter((s) => s.id !== id)
FilterOut(ss, id) == SelectSeq(ss, LAMBDA s : s.id # id)

RemoveAt(cs, i) == SubSeq(cs, 1, i - 1) \o SubSeq(cs, i + 1, Len(cs))

\* loadSales throws on this data: JSON.parse does
LoadThrows(data) == data # <<>> /\ SyntaxError(data[1])

RejectionOf(op) ==
    CASE op = "load" -> "loadSalesRejected"
      [] op = "save" -> "saveSaleRejected"
      [] op = "delete" -> "deleteSaleRejected"

\* the promise of call i rejects: no caller catches it, so the rest of the
\* caller (the then-callback, the code after the await) is never run
Rejected(i, error) ==
    /\ calls' = RemoveAt(calls, i)
    /\ ev' = Event(RejectionOf(calls[i].op), error)

\* AsyncStorage.getItem resolves: loadSales returns or throws, and saveSale
\* and deleteSale go on to their setItem
GetItem(i) ==
    /\ calls[i].pc = "getItem"
    /\ LET c == calls[i]
           data == storage
           loaded == LoadedSales(data)
       IN  IF LoadThrows(data)
           THEN Rejected(i, "SyntaxError")
           ELSE /\ calls' =
                     [calls EXCEPT ![i] =
                        CASE c.op = "load" ->
                               [c EXCEPT !.pc = "resume", !.data = data,
                                         !.val = loaded]
                          [] c.op = "save" ->
                               [c EXCEPT !.pc = "setItem", !.data = data,
                                         !.val = StringifySales(Unshift(loaded, c.arg))]
                          [] c.op = "delete" ->
                               [c EXCEPT !.pc = "setItem", !.data = data,
                                         !.val = StringifySales(FilterOut(loaded, c.arg))]]
                /\ ev' = Event("getItem", "none")
    /\ UNCHANGED <<platform, cap, stack, sessionVars, reportVars, homeVars, storage,
                   alert, nextId, clock>>

\* a failed read taken for the read of nothing: the call goes on to write
StorageFailsReadsEmpty(i) ==
    /\ calls[i].pc \in {"getItem", "setItem"}
    /\ IF calls[i].pc = "getItem" /\ calls[i].op # "load"
       THEN /\ calls' =
                 [calls EXCEPT ![i] =
                    [calls[i] EXCEPT
                       !.pc = "setItem",
                       !.val = StringifySales(
                                 IF calls[i].op = "save" THEN <<calls[i].arg>>
                                 ELSE <<>>)]]
            /\ ev' = Event("getItem", "none")
       ELSE Rejected(i, "StorageError")
    /\ UNCHANGED <<platform, cap, stack, sessionVars, reportVars, homeVars, storage,
                   alert, nextId, clock>>

\* a failure that the caller does not see: its code after the await runs
StorageFailsUnseen(i) ==
    /\ calls[i].pc \in {"getItem", "setItem"}
    /\ calls' = [calls EXCEPT ![i].pc = "resume"]
    /\ ev' = Event(RejectionOf(calls[i].op), "StorageError")
    /\ UNCHANGED <<platform, cap, stack, sessionVars, reportVars, homeVars, storage,
                   alert, nextId, clock>>

\* a failure after which the caller dismisses the screens all the same
StorageFailsAndDismisses(i) ==
    /\ calls[i].pc \in {"getItem", "setItem"}
    /\ ev' = Event(RejectionOf(calls[i].op), "StorageError")
    /\ Navigate(DismissAllStack, RemoveAt(calls, i))
    /\ UNCHANGED <<platform, cap, homeVars, storage, alert, nextId, clock>>

\* AsyncStorage.getItem or AsyncStorage.setItem rejects (the backend is
\* unavailable, the disk is full): nothing is written
StorageFails(i) ==
    /\ calls[i].pc \in {"getItem", "setItem"}
    /\ Rejected(i, "StorageError")
    /\ UNCHANGED <<platform, cap, stack, sessionVars, reportVars, homeVars, storage,
                   alert, nextId, clock>>

\* a setItem that leaves the text half written: its newest sale is missing
SetItemTorn(i) ==
    /\ calls[i].pc = "setItem"
    /\ storage' = <<[calls[i].val EXCEPT !.json = Slice1(calls[i].val.json)]>>
    /\ calls' = [calls EXCEPT ![i].pc = "resume"]
    /\ ev' = Event("setItem", "none")
    /\ UNCHANGED <<platform, cap, stack, sessionVars, reportVars, homeVars,
                   alert, nextId, clock>>

\* a setItem that is rejected when the text was written since the call read
SetItemIfUnchanged(i) ==
    /\ calls[i].pc = "setItem"
    /\ IF calls[i].data = storage
       THEN /\ storage' = <<calls[i].val>>
            /\ calls' = [calls EXCEPT ![i].pc = "resume"]
            /\ ev' = Event("setItem", "none")
       ELSE Rejected(i, "StorageError") /\ UNCHANGED storage
    /\ UNCHANGED <<platform, cap, stack, sessionVars, reportVars, homeVars,
                   alert, nextId, clock>>

\* AsyncStorage.setItem writes the text and resolves
SetItem(i) ==
    /\ calls[i].pc = "setItem"
    /\ storage' = <<calls[i].val>>
    /\ calls' = [calls EXCEPT ![i].pc = "resume"]
    /\ ev' = Event("setItem", "none")
    /\ UNCHANGED <<platform, cap, stack, sessionVars, reportVars, homeVars,
                   alert, nextId, clock>>

\* handleSave after its await: router.dismissAll()
SaveResume(i) ==
    /\ calls[i].op = "save" /\ calls[i].pc = "resume"
    /\ Navigate(DismissAllStack, RemoveAt(calls, i))
    /\ ev' = Event("handleSave", Haptic("success"))
    /\ UNCHANGED <<platform, cap, homeVars, storage, alert, nextId, clock>>

(***************************************************************************)
(* HomeScreen and SaleCard.                                                *)
(***************************************************************************)
\* the then-callback of the load that useFocusEffect started
LoadResume(i) ==
    /\ calls[i].op = "load" /\ calls[i].pc = "resume"
    /\ sales' = calls[i].val
    /\ loading' = FALSE
    /\ calls' = RemoveAt(calls, i)
    /\ ev' = Event("loadSales", "none")
    /\ UNCHANGED <<platform, cap, stack, sessionVars, reportVars, storage, alert,
                   nextId, clock>>

\* HomeScreen.handleDelete up to its await: deleteSale(id) is started
StartDelete(id) ==
    /\ Len(calls) < cap
    /\ calls' = Append(calls, Call("delete", id))

\* SaleCard.handleDelete on the card of the sale with this id
HandleDelete(id) ==
    /\ Top = "home" /\ alert = NoAlert
    /\ \E i \in 1..Len(sales) : sales[i].id = id
    /\ IF platform = "web"
       THEN StartDelete(id) /\ UNCHANGED alert
       ELSE alert' = Alert("deleteSale", id, <<>>) /\ UNCHANGED calls
    /\ ev' = Event("handleDelete", "none")
    /\ UNCHANGED <<platform, cap, stack, sessionVars, reportVars, homeVars, storage,
                   nextId, clock>>

\* the "Delete" button of the delete alert
DeleteConfirm ==
    /\ alert.kind = "deleteSale"
    /\ StartDelete(alert.id)
    /\ alert' = NoAlert
    /\ ev' = Event("deleteConfirm", "none")
    /\ UNCHANGED <<platform, cap, stack, sessionVars, reportVars, homeVars, storage,
                   nextId, clock>>

\* HomeScreen.handleDelete after its await
DeleteResume(i) ==
    /\ calls[i].op = "delete" /\ calls[i].pc = "resume"
    /\ sales' = FilterOut(sales, calls[i].arg)
    /\ calls' = RemoveAt(calls, i)
    /\ ev' = Event("handleDelete", Haptic("success"))
    /\ UNCHANGED <<platform, cap, stack, sessionVars, reportVars, loading, storage,
                   alert, nextId, clock>>

\* handleNewMeasurement: the measurement screen is mounted with a new session
HandleNewMeasurement ==
    /\ Top = "home" /\ alert = NoAlert
    /\ stack' = Append(stack, "measurement")
    /\ rows' = <<>>
    /\ ev' = Event("handleNewMeasurement", Haptic("medium"))
    /\ UNCHANGED <<platform, cap, reportVars, homeVars, storeVars, alert, nextId, clock>>

\* a restart that comes up with its storage cleared
RestartCleared ==
    /\ stack' = <<"home">>
    /\ rows' = <<>>
    /\ params' = <<>> /\ reportNow' = 0
    /\ sales' = <<>> /\ loading' = TRUE
    /\ calls' = <<Call("load", 0)>>
    /\ alert' = NoAlert
    /\ storage' = <<>>
    /\ ev' = Event("restart", "none")
    /\ UNCHANGED <<platform, cap, nextId, clock>>

\* the app is stopped and started again: the memory is lost, Home is mounted
\* and starts its first load, what AsyncStorage holds is kept
Restart ==
    /\ stack' = <<"home">>
    /\ rows' = <<>>
    /\ params' = <<>> /\ reportNow' = 0
    /\ sales' = <<>> /\ loading' = TRUE
    /\ calls' = <<Call("load", 0)>>
    /\ alert' = NoAlert
    /\ ev' = Event("restart", "none")
    /\ UNCHANGED <<platform, cap, storage, nextId, clock>>

\* time passes
Tick ==
    /\ clock < MaxClock
    /\ clock' = clock + 1
    /\ ev' = Event("tick", "none")
    /\ UNCHANGED <<platform, cap, stack, sessionVars, reportVars, homeVars, storeVars,
                   alert, nextId>>

(***************************************************************************)
(* The app: Home is mounted and focused, its first load in flight.  The    *)
(* history key has never been written, or holds a text that is no JSON.    *)
(***************************************************************************)
Init ==
    /\ platform \in {"web", "native"}
    /\ cap = MaxCalls
    /\ stack = <<"home">>
    /\ rows = <<>>
    /\ params = <<>> /\ reportNow = 0
    /\ sales = <<>> /\ loading = TRUE
    /\ storage \in {<<>>, <<CorruptText>>}
    /\ calls = <<Call("load", 0)>>
    /\ alert = NoAlert
    /\ nextId = 1
    /\ clock = 0
    /\ ev = Event("init", "none")

\* the steps but handleAddRow
Handlers ==
    \/ HandleDeleteLast
    \/ UndoRemove
    \/ HandleEndMeasurement
    \/ EndFinish
    \/ MeasurementBack
    \/ DiscardConfirm
    \/ AlertCancel
    \/ HandleSave
    \/ ReportBack
    \/ OpenReport
    \/ \E i \in 1..Len(calls) : GetItem(i)
    \/ \E i \in 1..Len(calls) : SetItem(i)
    \/ \E i \in 1..Len(calls) : StorageFails(i)
    \/ \E i \in 1..Len(calls) : SaveResume(i)
    \/ \E i \in 1..Len(calls) : LoadResume(i)
    \/ \E i \in 1..Len(calls) : DeleteResume(i)
    \/ \E id \in 1..MaxIds : HandleDelete(id)
    \/ DeleteConfirm
    \/ HandleNewMeasurement
    \/ Restart
    \/ Tick

\* the texts of the weight and pcs fields when Add is pressed in a sale
FlowInputs ==
    { << <<"1", "2", ".", "5", "0", "0">>, <<"1", "0">> >>,
      << <<"8", ".", "2", "5", "0">>, <<"6">> >>,
      << InfinityText, <<"1", "0">> >>,
      << <<"0">>, <<"6">> >> }

Next ==
    \/ \E in \in FlowInputs : HandleAddRow(in[1], in[2])
    \/ Handlers

Spec == Init /\ [][Next]_vars

(***************************************************************************)
(* One weighing session: the measurement screen is open over Home, whose   *)
(* first load is over, and the fields are given texts of every kind.       *)
(***************************************************************************)
SessionInputs ==
    { << <<"1", ".", "5">>, <<"1">> >>,
      << <<"2", "k", "g">>, <<"2">> >>,
      << InfinityText, <<"1">> >>,
      << <<"1", ".", "5">>, <<"1", ".", "5">> >>,
      << <<"0">>, <<"1">> >>,
      << <<"-", "1">>, <<"1">> >>,
      << <<"1">>, <<"0">> >>,
      << <<"1", ".", "5">>, <<"-", "3">> >>,
      << <<>>, <<"1">> >>,
      << <<"1", ".", "5">>, <<>> >>,
      << <<"x">>, <<"x">> >> }

InitSession ==
    /\ platform \in {"web", "native"}
    /\ cap = MaxCalls
    /\ stack = <<"home", "measurement">>
    /\ rows = <<>>
    /\ params = <<>> /\ reportNow = 0
    /\ sales = <<>> /\ loading = FALSE
    /\ storage = <<>>
    /\ calls = <<>>
    /\ alert = NoAlert
    /\ nextId = 1
    /\ clock = 0
    /\ ev = Event("handleNewMeasurement", Haptic("medium"))

NextSession ==
    \/ \E in \in SessionInputs : HandleAddRow(in[1], in[2])
    \/ HandleDeleteLast
    \/ UndoRemove
    \/ AlertCancel
    \/ Tick

SpecSession == InitSession /\ [][NextSession]_vars

(***************************************************************************)
(* lib/storage.ts under any caller: from Home, loadSales, saveSale and     *)
(* deleteSale are called with any sale a report can build and any id.      *)
(***************************************************************************)
\* the sale handleSave builds from these rows, now being the time
SaleOf(id, rs) ==
    LET tw == TotalWeightOf(rs)
        tp == TotalPcsOf(rs)
        avg == AverageOf(tw, tp)
    IN  [id |-> id,
         totalWeightKg |-> tw,
         totalWeightGrams |-> kgToGrams(tw),
         totalPcs |-> tp,
         averageWeightKg |-> avg,
         averageWeightGrams |-> kgToGrams(avg),
         rows |-> rs,
         createdAt |-> clock]

\* rows as a report receives them: none, one row, one row whose weight was
\* Infinity
StoreRows(id) ==
    { <<>>,
      <<[id |-> id, weightKg |-> Fin(3, 2), pcs |-> Whole(2), timestamp |-> clock]>>,
      <<[id |-> id, weightKg |-> Null, pcs |-> Whole(1), timestamp |-> clock]>> }

\* loadSales() is called
CallLoad ==
    /\ Len(calls) < cap
    /\ calls' = FocusCalls(calls, TRUE)
    /\ ev' = Event("callLoad", "none")
    /\ UNCHANGED <<platform, cap, stack, sessionVars, reportVars, homeVars, storage,
                   alert, nextId, clock>>

\* saveSale(sale) is called
CallSave(sale) ==
    /\ Len(calls) < cap /\ nextId <= MaxIds
    /\ calls' = Append(calls, Call("save", sale))
    /\ nextId' = nextId + 1
    /\ ev' = Event("callSave", "none")
    /\ UNCHANGED <<platform, cap, stack, sessionVars, reportVars, homeVars, storage,
                   alert, clock>>

\* HomeScreen.handleDelete(id) is called, whatever the cards on display
CallDelete(id) ==
    /\ StartDelete(id)
    /\ ev' = Event("callDelete", "none")
    /\ UNCHANGED <<platform, cap, stack, sessionVars, reportVars, homeVars, storage,
                   alert, nextId, clock>>

NextStore ==
    \/ CallLoad
    \/ \E rs \in StoreRows(randomUUID) : CallSave(SaleOf(randomUUID, rs))
    \/ \E id \in 1..MaxIds : CallDelete(id)
    \/ \E i \in 1..Len(calls) : GetItem(i)
    \/ \E i \in 1..Len(calls) : SetItem(i)
    \/ \E i \in 1..Len(calls) : SaveResume(i)
    \/ \E i \in 1..Len(calls) : LoadResume(i)
    \/ \E i \in 1..Len(calls) : DeleteResume(i)

SpecStore == Init /\ [][NextStore]_vars

(***************************************************************************)
(* The app with two storage calls in flight: a sale is weighed, reported   *)
(* and saved, and deleted from Home, with the taps and the focus of Home   *)
(* coming while a call is on its way.                                      *)
(***************************************************************************)
InitRace ==
    /\ platform \in {"web", "native"}
    /\ cap = MaxRacing
    /\ stack = <<"home">>
    /\ rows = <<>>
    /\ params = <<>> /\ reportNow = 0
    /\ sales = <<>> /\ loading = TRUE
    /\ storage = <<>>
    /\ calls = <<Call("load", 0)>>
    /\ alert = NoAlert
    /\ nextId = 1
    /\ clock = 0
    /\ ev = Event("init", "none")

\* the texts of the fields in these runs
RaceInputs == { << <<"1", ".", "5">>, <<"2">> >> }

NextRace ==
    \/ HandleNewMeasurement
    \/ \E in \in RaceInputs : HandleAddRow(in[1], in[2])
    \/ HandleEndMeasurement
    \/ EndFinish
    \/ MeasurementBack
    \/ DiscardConfirm
    \/ AlertCancel
    \/ HandleSave
    \/ ReportBack
    \/ \E i \in 1..Len(calls) : GetItem(i)
    \/ \E i \in 1..Len(calls) : SetItem(i)
    \/ \E i \in 1..Len(calls) : SaveResume(i)
    \/ \E i \in 1..Len(calls) : LoadResume(i)
    \/ \E i \in 1..Len(calls) : DeleteResume(i)
    \/ \E id \in 1..MaxIds : HandleDelete(id)
    \/ DeleteConfirm

SpecRace == InitRace /\ [][NextRace]_vars

(***************************************************************************)
(* The properties.                                                         *)
(***************************************************************************)
\* f[1] + ... + f[k]
RECURSIVE SumTo(_, _)
SumTo(f, k) == IF k = 0 THEN Whole(0) ELSE NumAdd(f[k], SumTo(f, k - 1))
SumOfWeights(rs) == SumTo([i \in 1..Len(rs) |-> rs[i].weightKg], Len(rs))
SumOfPcs(rs) == SumTo([i \in 1..Len(rs) |-> rs[i].pcs], Len(rs))

\* q is a / b, by cross-multiplication
IsQuotient(q, a, b) ==
    LET x == ToNumber(a)
        y == ToNumber(b)
    IN  IF x.k = "fin" /\ y.k = "fin"
        THEN q.k = "fin" /\ q.n * x.d * y.n = x.n * y.d * q.d
        ELSE q.k = x.k /\ q.n = x.n
AverageRight(tw, tp, avg) ==
    IF tp.k \in {"fin", "inf"} /\ tp.n > 0
    THEN IsQuotient(avg, tw, tp)
    ELSE avg = Whole(0)

\* g is the integer nearest to kg * 1000, a half rounded up
IsRoundedGrams(g, kg) ==
    /\ kg.k = "fin" /\ g.k = "fin" /\ g.d = 1
    /\ 2 * g.n * kg.d - kg.d <= 2 * GramsPerKg * kg.n
    /\ 2 * GramsPerKg * kg.n < 2 * g.n * kg.d + kg.d

\* a text read as a numeral: an optional "-", digits, at most one "."
Unsigned(t) == IF t # <<>> /\ t[1] = "-" THEN Tail(t) ELSE t
IsDecimalNumeral(t) ==
    LET u == Unsigned(t)
    IN  /\ \A i \in 1..Len(u) : u[i] \in Digits \cup {"."}
        /\ \E i \in 1..Len(u) : u[i] \in Digits
        /\ Cardinality({i \in 1..Len(u) : u[i] = "."}) <= 1
IsIntegerNumeral(t) ==
    LET u == Unsigned(t)
    IN  u # <<>> /\ \A i \in 1..Len(u) : u[i] \in Digits
\* the sign of a numeral: -1, 0 or 1
NumeralSign(t) ==
    IF \A i \in 1..Len(t) : t[i] \in Digits => t[i] = "0" THEN 0
    ELSE IF t[1] = "-" THEN -1 ELSE 1
NonPositiveInput(w, p) ==
    \/ IsDecimalNumeral(w) /\ NumeralSign(w) <= 0
    \/ IsDecimalNumeral(p) /\ NumeralSign(p) <= 0

AddStep == ev'.op = "handleAddRow"
AddAccepted == AddStep /\ (rows' # rows \/ ev'.fb = "light")
UndoStep ==
    \/ ev'.op = "undoRemove"
    \/ ev'.op = "handleDeleteLast" /\ platform = "web"
ErrorFeedback == IF platform = "web" THEN "none" ELSE "error"
One == Whole(1)

\* C1: in a session the displayed total weight is the sum of weightKg over the
\* rows now in the session and the displayed count the sum of their pcs, both
\* 0 when there is none, whatever adds and undos led there.
C1_TotalsAreSums ==
    /\ totalWeight = SumOfWeights(rows)
    /\ totalPcs = SumOfPcs(rows)
    /\ rows = <<>> => totalWeight = Whole(0) /\ totalPcs = Whole(0)
\* two rows, the newer added after an undo, of pcs 1 and 2
C1_Witness ==
    /\ Len(rows) = 2 /\ rows[1].id = 3 /\ totalPcs = Whole(3)
    /\ totalWeight.k = "fin" /\ IsQuotient(totalWeight, Whole(7), Whole(2))

\* C2: the average of the live totals, of the report and of the sale being
\* saved is total weight / total count when the count is positive and 0 when
\* it is 0; the sale built from no rows has totals 0, average 0 and no rows.
C2_AverageGuarded ==
    /\ AverageRight(totalWeight, totalPcs, avgWeight)
    /\ AverageRight(totalWeightKg, reportTotalPcs, avgWeightKg)
    /\ reportRows = <<>> =>
          /\ NewSale.totalWeightKg = Whole(0) /\ NewSale.totalPcs = Whole(0)
          /\ NewSale.averageWeightKg = Whole(0) /\ NewSale.rows = <<>>
    /\ \A i \in 1..Len(calls) :
          calls[i].op = "save" =>
            LET sale == calls[i].arg
            IN  /\ AverageRight(sale.totalWeightKg, sale.totalPcs,
                                sale.averageWeightKg)
                /\ sale.rows = <<>> =>
                      /\ sale.totalWeightKg = Whole(0)
                      /\ sale.totalPcs = Whole(0)
                      /\ sale.averageWeightKg = Whole(0)
\* the report of no rows is being saved while the history holds a sale of
\* 10 birds
C2_Witness ==
    /\ Top = "report" /\ reportRows = <<>>
    /\ \E i \in 1..Len(calls) : calls[i].op = "save" /\ calls[i].arg.rows = <<>>
    /\ \E j \in 1..Len(LoadedSales(storage)) :
          /\ LoadedSales(storage)[j].totalPcs = Whole(10)
          /\ LoadedSales(storage)[j].averageWeightKg = Fin(5, 4)

C4_MalformedRejected ==
    [][(AddStep /\ (~IsDecimalNumeral(ev'.weightInput)
                    \/ ~IsIntegerNumeral(ev'.pcsInput))) =>
         rows' = rows]_vars

\* C5: an accepted add makes the rows one longer, the new row at the head
\* with an id no row had, and the rows there were behind it unchanged and in
\* their order.
C5_AddPrepends ==
    [][AddAccepted =>
         /\ Len(rows') = Len(rows) + 1
         /\ \A i \in 1..Len(rows) : rows'[i + 1] = rows[i]
         /\ \A i \in 1..Len(rows) : rows[i].id # rows'[1].id]_vars
\* a second row has just been added
C5_Witness ==
    /\ ev.op = "handleAddRow" /\ Len(rows) = 2
    /\ rows[1].id = 2 /\ rows[2].id = 1

\* C6: an undo on a session that is not empty removes the head and leaves
\* every other row unchanged and in order; no step removes a row elsewhere.
C6_UndoRemovesHead ==
    [][/\ (UndoStep /\ rows # <<>>) =>
            /\ Len(rows') = Len(rows) - 1
            /\ \A i \in 1..Len(rows') : rows'[i] = rows[i + 1]
       /\ Len(rows') < Len(rows) => rows' = Tail(rows)]_vars
\* E1 and E2 were added and the undo has left E1 alone
C6_Witness ==
    /\ ev.op \in {"undoRemove", "handleDeleteLast"}
    /\ Len(rows) = 1 /\ rows[1].id = 1 /\ nextId = 3

C8_RowsPositiveAndFixed ==
    /\ [](\A i \in 1..Len(rows) :
            /\ rows[i].weightKg.k \in {"fin", "inf"} /\ rows[i].weightKg.n > 0
            /\ rows[i].pcs.k \in {"fin", "inf"} /\ rows[i].pcs.n > 0)
    /\ [][\A i \in 1..Len(rows), j \in 1..Len(rows') :
            rows[i].id = rows'[j].id => rows[i] = rows'[j]]_vars
\* E1 is still there after E2 was added and removed and E3 added
C8_Witness ==
    Len(rows) = 2 /\ rows[2].id = 1 /\ rows[1].id = 3 /\ rows[1].pcs = One

\* C9: every sale of the persisted history has totalWeightKg the sum of its
\* rows' weights, totalPcs the sum of their counts, averageWeightKg their
\* quotient (0 for a count of 0) and gram fields the kg fields times 1000,
\* rounded.
SaleConsistent(s) ==
    /\ s.totalWeightKg = SumOfWeights(s.rows)
    /\ s.totalPcs = SumOfPcs(s.rows)
    /\ AverageRight(s.totalWeightKg, s.totalPcs, s.averageWeightKg)
    /\ IsRoundedGrams(s.totalWeightGrams, s.totalWeightKg)
    /\ IsRoundedGrams(s.averageWeightGrams, s.averageWeightKg)
C9_HistoryConsistent ==
    \A i \in 1..Len(LoadedSales(storage)) : SaleConsistent(LoadedSales(storage)[i])
\* the history holds a sale of two rows of different weights
C9_Witness ==
    \E i \in 1..Len(LoadedSales(storage)) :
        LET s == LoadedSales(storage)[i]
        IN  /\ Len(s.rows) = 2
            /\ s.rows[1].weightKg # s.rows[2].weightKg
            /\ s.totalWeightGrams # s.averageWeightGrams

\* C10: the rows (12.500 kg, 10) and (8.250 kg, 6) total 20.750 kg and 16
\* birds, average 1.296875 kg, and give the sale 20750 and 1297 grams, in the
\* session, in the report and in the history.
IsScenario(rs) ==
    /\ Len(rs) = 2
    /\ {<<rs[i].weightKg, rs[i].pcs>> : i \in 1..2} =
         {<<Fin(25, 2), Whole(10)>>, <<Fin(33, 4), Whole(6)>>}
ScenarioGrams(s) ==
    /\ s.totalWeightKg = Fin(83, 4) /\ s.totalPcs = Whole(16)
    /\ s.averageWeightKg = Fin(83, 64)
    /\ s.totalWeightGrams = Whole(20750) /\ s.averageWeightGrams = Whole(1297)
C10_Scenario ==
    /\ IsScenario(rows) =>
          /\ totalWeight = Fin(83, 4) /\ totalPcs = Whole(16)
          /\ avgWeight = Fin(83, 64)
    /\ IsScenario(reportRows) => ScenarioGrams(NewSale)
    /\ \A i \in 1..Len(LoadedSales(storage)) :
          IsScenario(LoadedSales(storage)[i].rows) =>
            ScenarioGrams(LoadedSales(storage)[i])
\* the sale of the two rows is in the history
C10_Witness ==
    \E i \in 1..Len(LoadedSales(storage)) :
        /\ IsScenario(LoadedSales(storage)[i].rows)
        /\ LoadedSales(storage)[i].averageWeightGrams = Whole(1297)

HasMeasurement == \E i \in 1..Len(stack) : stack[i] = "measurement"
\* handleSave has run up to its await: the sale it built is the argument of
\* the call it started
SaveStep == ev'.op = "handleSave" /\ Len(calls') > Len(calls)
SavedSale == calls'[Len(calls')].arg

\* C11: the rows the report screen receives when the measurement is ended,
\* and the rows of the sale it then builds, are the rows of the session:
\* same rows, same fields, same order.
C11_RowsHandedOver ==
    [][/\ ev'.op = "doEnd" => reportRows' = rows
       /\ (SaveStep /\ HasMeasurement) => SavedSale.rows = rows]_vars

\* the sales finalized before: those of the history and of the saves in flight
EarlierSales ==
    {LoadedSales(storage)[j] : j \in 1..Len(LoadedSales(storage))}
      \cup {calls[i].arg : i \in {k \in 1..Len(calls) : calls[k].op = "save"}}
SameInputs(s, t) == s.rows = t.rows /\ s.createdAt = t.createdAt
SameButId(s, t) ==
    /\ s.totalWeightKg = t.totalWeightKg
    /\ s.totalWeightGrams = t.totalWeightGrams
    /\ s.totalPcs = t.totalPcs
    /\ s.averageWeightKg = t.averageWeightKg
    /\ s.averageWeightGrams = t.averageWeightGrams
    /\ s.rows = t.rows
    /\ s.createdAt = t.createdAt
\* the sale is built before storage is read or written: the call that is to
\* save it has not read yet and the stored text is as it was
BuiltWithoutStorage ==
    /\ storage' = storage
    /\ calls'[Len(calls')].pc = "getItem" /\ calls'[Len(calls')].data = <<>>

Wrote(i) ==
    /\ ev'.op = "setItem" /\ i \in 1..Len(calls)
    /\ calls[i].pc = "setItem" /\ calls'[i].pc = "resume"
\* getItem has resolved for call i and the call goes on
Read(i) ==
    /\ ev'.op = "getItem" /\ i \in 1..Len(calls)
    /\ calls[i].pc = "getItem" /\ calls'[i].pc # "getItem"
\* nothing was written between the read of a call and now: the text it read
\* is the text stored
NotInterleaved(c) == c.data = storage
HasId(ss, id) == \E j \in 1..Len(ss) : ss[j].id = id
\* the sales of ss but those of this id, in their order
RECURSIVE Without(_, _)
Without(ss, id) ==
    IF ss = <<>> THEN <<>>
    ELSE IF ss[1].id = id THEN Without(Tail(ss), id)
    ELSE <<ss[1]>> \o Without(Tail(ss), id)
Rejections == {"loadSalesRejected", "saveSaleRejected", "deleteSaleRejected"}
\* call i has thrown on what it read
ThrewAt(i) ==
    /\ ev'.op \in Rejections /\ ev'.fb = "SyntaxError"
    /\ i \in 1..Len(calls) /\ calls[i].pc = "getItem"
    /\ calls' = RemoveAt(calls, i)

\* C13: when saveSale(s) has written with nothing written since it read, a
\* loadSales() gives s, every field and row of it, as its first element and
\* behind it the sales there were, unchanged and in their order.
C13_SaveThenLoad ==
    [][\A i \in 1..Len(calls) :
         (Wrote(i) /\ calls[i].op = "save" /\ NotInterleaved(calls[i])) =>
            LET before == LoadedSales(storage)
                after == LoadedSales(storage')
            IN  /\ Len(after) = Len(before) + 1
                /\ after[1] = calls[i].arg
                /\ \A j \in 1..Len(before) : after[j + 1] = before[j]]_vars
\* a save has just written a sale of one row in front of two sales
C13_Witness ==
    /\ ev.op = "setItem"
    /\ \E i \in 1..Len(calls) :
          /\ calls[i].op = "save" /\ calls[i].pc = "resume"
          /\ Len(LoadedSales(calls[i].data)) = 2
          /\ Len(calls[i].arg.rows) = 1
          /\ LoadedSales(storage)[1] = calls[i].arg
    /\ Len(LoadedSales(storage)) = 3

\* C14: when deleteSale(id) has written with nothing written since it read, a
\* loadSales() gives no sale of that id and every other sale there was,
\* unchanged and in the same order.
C14_DeleteThenLoad ==
    [][\A i \in 1..Len(calls) :
         (Wrote(i) /\ calls[i].op = "delete" /\ NotInterleaved(calls[i])) =>
            /\ ~HasId(LoadedSales(storage'), calls[i].arg)
            /\ LoadedSales(storage') = Without(LoadedSales(storage), calls[i].arg)]_vars
\* the second of three sales has just been deleted
C14_Witness ==
    /\ ev.op = "setItem"
    /\ \E i \in 1..Len(calls) :
          /\ calls[i].op = "delete" /\ calls[i].pc = "resume"
          /\ Len(LoadedSales(calls[i].data)) = 3
          /\ LoadedSales(calls[i].data)[2].id = calls[i].arg
    /\ Len(LoadedSales(storage)) = 2

\* C15: deleteSale of an id that no sale of the history has goes on to its
\* write and resolves, and a loadSales() gives what it gave before; so it is
\* with the second of two deletes of one id.
C15_DeleteMissingIsNoOp ==
    [][\A i \in 1..Len(calls) :
         /\ (Read(i) /\ calls[i].op = "delete"
               /\ ~HasId(LoadedSales(storage), calls[i].arg)) =>
              /\ calls'[i].pc = "setItem"
              /\ JSONparse(calls'[i].val) = LoadedSales(storage)
         /\ (Wrote(i) /\ calls[i].op = "delete" /\ NotInterleaved(calls[i])
               /\ ~HasId(LoadedSales(storage), calls[i].arg)) =>
              LoadedSales(storage') = LoadedSales(storage)]_vars
\* a delete has resolved of an id that the history of two sales, which it
\* left alone, had lost to an earlier delete
C15_Witness ==
    /\ ev.op = "setItem"
    /\ \E i \in 1..Len(calls) :
          /\ calls[i].op = "delete" /\ calls[i].pc = "resume"
          /\ calls[i].arg < nextId
          /\ ~HasId(LoadedSales(calls[i].data), calls[i].arg)
          /\ Len(LoadedSales(calls[i].data)) = 2
          /\ LoadedSales(storage) = LoadedSales(calls[i].data)
    /\ nextId = 4

\* C16: loadSales() on a history key never written returns the empty list,
\* is not rejected and writes nothing; no load ever comes to a write.
C16_LoadOfNothing ==
    /\ [](\A i \in 1..Len(calls) : calls[i].op = "load" => calls[i].pc # "setItem")
    /\ [][\A i \in 1..Len(calls) :
            /\ (calls[i].op = "load" /\ storage = <<>>
                  /\ (Read(i) \/ ThrewAt(i))) =>
                 /\ Read(i) /\ calls'[i].pc = "resume" /\ calls'[i].val = <<>>
            /\ (Read(i) /\ calls[i].op = "load") => storage' = storage
            /\ (ev'.op = "loadSales" /\ calls' = RemoveAt(calls, i)
                  /\ calls[i].op = "load" /\ calls[i].pc = "resume"
                  /\ calls[i].data = <<>>) =>
                 sales' = <<>> /\ storage' = storage]_vars
\* Home has shown the empty history it loaded from a key never written
C16_Witness ==
    /\ ev.op = "loadSales" /\ storage = <<>> /\ sales = <<>> /\ ~loading
    /\ calls = <<>>

\* C17: a text under the history key that is no JSON is read as the empty
\* list: no call is rejected over it, loadSales returns no sale, saveSale
\* writes the sale alone and deleteSale the empty list.
C17_CorruptTreatedAsEmpty ==
    [][/\ ev'.fb # "SyntaxError"
       /\ \A i \in 1..Len(calls) :
            (Read(i) /\ LoadThrows(storage)) =>
               JSONparse(calls'[i].val) =
                 (CASE calls[i].op = "load" -> <<>>
                    [] calls[i].op = "save" -> <<calls[i].arg>>
                    [] calls[i].op = "delete" -> <<>>)]_vars

\* C18: when saveSale is rejected, by a read or a write that failed, the
\* screens stay as they are, the report keeps its rows and its time (of
\* which its aggregates are functions), the session keeps its rows and the
\* stored text is unchanged; Save can be pressed again.
C18_FailedSaveLosesNothing ==
    [][ev'.op = "saveSaleRejected" =>
         /\ stack' = stack
         /\ params' = params /\ reportNow' = reportNow
         /\ rows' = rows
         /\ storage' = storage
         /\ alert' = alert
         /\ Len(calls') < Len(calls)]_vars
\* the save of a session's report is being tried again, the sale built first
\* having been lost to a failure
C18_Witness ==
    /\ Top = "report" /\ HasMeasurement /\ ev.op = "handleSave"
    /\ Len(rows) = 1 /\ rows[1].id = 1 /\ reportRows = rows
    /\ storage = <<>>
    /\ \E i \in 1..Len(calls) : calls[i].op = "save" /\ calls[i].arg.id = 3

\* C19: the stored text changes by the write of a save or a delete alone; a
\* restart loses the memory, keeps the stored text and starts Home's load,
\* and a load with nothing written since it read gives Home the history as
\* it is stored, sale by sale.
C19_HistorySurvivesRestart ==
    [][/\ storage' # storage =>
            \E i \in 1..Len(calls) :
                /\ Wrote(i) /\ calls[i].op \in {"save", "delete"}
                /\ storage' = <<calls[i].val>>
       /\ ev'.op = "restart" =>
            /\ storage' = storage
            /\ sales' = <<>> /\ rows' = <<>> /\ stack' = <<"home">>
            /\ Len(calls') = 1 /\ calls'[1].op = "load" /\ calls'[1].pc = "getItem"
       /\ \A i \in 1..Len(calls) :
            (ev'.op = "loadSales" /\ calls' = RemoveAt(calls, i)
               /\ calls[i].op = "load" /\ calls[i].pc = "resume"
               /\ NotInterleaved(calls[i]) /\ storage # <<>>) =>
              /\ Len(sales') = Len(storage[1].json)
              /\ \A j \in 1..Len(sales') : sales'[j] = storage[1].json[j]]_vars
\* the app has just been started again over a history of two sales
C19_Witness ==
    /\ ev.op = "restart" /\ sales = <<>> /\ loading
    /\ Len(LoadedSales(storage)) = 2
    /\ \E j \in 1..2 : LoadedSales(storage)[j].rows # <<>>

ConfirmedBy(kind) == alert.kind = kind

\* C20: a row leaves the session, a sale's delete is started and a session
\* with rows is left by Back only from the dialog that asks for it, by its
\* confirming button; the cancel button of a dialog leaves the session, the
\* screens, the calls and the stored text as they are.
C20_DestructionConfirmed ==
    [][/\ (HasMeasurement' /\ Len(rows') < Len(rows)) =>
            ConfirmedBy("undo") /\ ev'.op = "undoRemove"
       /\ (Len(calls') > Len(calls) /\ calls'[Len(calls')].op = "delete") =>
            ConfirmedBy("deleteSale") /\ ev'.op = "deleteConfirm"
       /\ (ev'.op \in {"measurementBack", "discardConfirm"} /\ rows # <<>>
             /\ rows' = <<>>) =>
            ConfirmedBy("discard") /\ ev'.op = "discardConfirm"
       /\ ev'.op = "alertCancel" =>
            /\ rows' = rows /\ stack' = stack
            /\ calls' = calls /\ storage' = storage]_vars

IsWriter(c) == c.op \in {"save", "delete"}
\* the list a writer is to leave, from the list it read
UpdatedBy(c, ss) ==
    IF c.op = "save" THEN <<c.arg>> \o ss ELSE Without(ss, c.arg)

\* C21: the stored text changes only by the one write of a save or a delete,
\* from the whole text there was to the whole list the call built from what
\* it read; a read in between gets the whole stored text, so the list before
\* or the list after and nothing else.
C21_WholeCollectionReplaced ==
    [][/\ storage' # storage =>
            \E i \in 1..Len(calls) :
                /\ Wrote(i) /\ IsWriter(calls[i])
                /\ storage' = <<calls[i].val>> /\ calls[i].val.ok
                /\ LoadedSales(storage') =
                     UpdatedBy(calls[i], LoadedSales(calls[i].data))
       /\ \A i \in 1..Len(calls) :
            Read(i) =>
               /\ calls'[i].data = storage /\ storage' = storage
               /\ \A j \in 1..Len(calls) :
                    (IsWriter(calls[j]) /\ calls[j].pc = "setItem"
                       /\ NotInterleaved(calls[j])) =>
                      calls'[i].data = calls[j].data]_vars
\* Home's load has read the list of one sale that a save, on its way to write,
\* had read
C21_Witness ==
    \E i, j \in 1..Len(calls) :
        /\ calls[i].op = "save" /\ calls[i].pc = "setItem"
        /\ calls[j].op = "load" /\ calls[j].pc = "resume"
        /\ calls[j].data = calls[i].data /\ calls[j].data = storage
        /\ Len(calls[j].val) = 1

\* a save or a delete is started
StartsWriter == Len(calls') > Len(calls) /\ IsWriter(calls'[Len(calls')])
\* the calls of the screen that starts c: saves are the report's, loads and
\* deletes are Home's
SameScreen(c, d) == (c.op = "save") <=> (d.op = "save")

\* C22: no save and no delete is started while a call the same screen
\* started is in flight.
C22_CallsSerialized ==
    [][StartsWriter =>
         \A i \in 1..Len(calls) : ~SameScreen(calls'[Len(calls')], calls[i])]_vars

\* C23: when a writer writes after another writer that read the text it read,
\* it is not rejected and leaves the list it built from what it read: a sale
\* the other saved is not in it, a sale the other deleted is.
C23_LastWriterWins ==
    [][\A i, j \in 1..Len(calls) :
         (/\ i # j /\ IsWriter(calls[i]) /\ IsWriter(calls[j])
          /\ calls[i].pc = "setItem" /\ calls[j].pc = "resume"
          /\ calls[i].data = calls[j].data /\ storage = <<calls[j].val>>
          /\ ev'.op \in {"setItem"} \cup Rejections
          /\ \/ calls' = RemoveAt(calls, i)
             \/ Len(calls') = Len(calls) /\ calls'[i] # calls[i]) =>
            /\ Wrote(i)
            /\ LoadedSales(storage') =
                 UpdatedBy(calls[i], LoadedSales(calls[i].data))
            /\ calls[j].op = "save" => ~HasId(LoadedSales(storage'), calls[j].arg.id)
            /\ (calls[j].op = "delete"
                  /\ (calls[i].op = "save" \/ calls[i].arg # calls[j].arg)) =>
                 (HasId(LoadedSales(calls[j].data), calls[j].arg)
                    <=> HasId(LoadedSales(storage'), calls[j].arg))]_vars
\* two saves read the empty history and both have written: the history is the
\* sale of the second alone
C23_Witness ==
    /\ ev.op = "setItem"
    /\ \E i, j \in 1..Len(calls) :
          /\ i # j /\ calls[i].op = "save" /\ calls[j].op = "save"
          /\ calls[i].pc = "resume" /\ calls[j].pc = "resume"
          /\ calls[i].data = calls[j].data
          /\ LoadedSales(storage) = <<calls[i].arg>>
          /\ calls[i].arg.rows # <<>>

\* C24: a call that fails, on what it read or in a getItem or setItem, is
\* rejected to its caller and is gone: nothing is written and nothing is
\* called again.  A writer comes to its write only from the text it read.
C24_FailurePropagates ==
    [][/\ ev'.op \in Rejections =>
            /\ ev'.fb \in {"StorageError", "SyntaxError"}
            /\ storage' = storage
            /\ \E i \in 1..Len(calls) :
                  /\ calls' = RemoveAt(calls, i)
                  /\ ev'.op = RejectionOf(calls[i].op)
       /\ \A i \in 1..Len(calls) :
            (Len(calls') = Len(calls) /\ calls[i].pc = "getItem"
               /\ calls'[i].pc = "setItem") =>
              /\ ~LoadThrows(storage)
              /\ calls'[i].data = storage
              /\ JSONparse(calls'[i].val) =
                   UpdatedBy(calls[i], LoadedSales(storage))]_vars
\* a save has been rejected over a failure of the storage and the history of
\* one sale is as it was
C24_Witness ==
    /\ ev.op = "saveSaleRejected" /\ ev.fb = "StorageError"
    /\ calls = <<>> /\ Top = "report"
    /\ Len(LoadedSales(storage)) = 1

NoDuplicate(ss) ==
    \A i, j \in 1..Len(ss) : (i # j /\ ss[i].rows # <<>>) => ss[i].rows # ss[j].rows

\* C25: no two sales of the history hold the rows of one session.
C25_OneSalePerSession == NoDuplicate(LoadedSales(storage))

IdsOf(ss) == [i \in 1..Len(ss) |-> ss[i].id]

\* C26: on Home, with no load and no delete of Home in flight and none of the
\* report's saves, Home shows the sales of the history, in order; and a load
\* never brings to the display a sale that the history has not.
C26_DisplayMatchesHistory ==
    /\ []((Top = "home" /\ calls = <<>> /\ ~loading) =>
            IdsOf(sales) = IdsOf(LoadedSales(storage)))
    /\ [][ev'.op = "loadSales" =>
            \A j \in 1..Len(sales') : HasId(LoadedSales(storage), sales'[j].id)]_vars

\* C27: End on an empty session leaves the screens, the session, the report
\* and the storage as they are; the report that End opens has a row, and the
\* sale built by a report that was handed rows has a row and a positive
\* count.
C27_EmptyEndDoesNothing ==
    [][/\ (ev'.op = "handleEndMeasurement" /\ rows = <<>>) =>
            /\ stack' = stack /\ rows' = rows
            /\ params' = params /\ reportNow' = reportNow
            /\ storage' = storage /\ calls' = calls
       /\ ev'.op = "doEnd" => reportRows' # <<>>
       /\ (SaveStep /\ params # <<>>) =>
            SavedSale.rows # <<>> /\ Gt0(SavedSale.totalPcs)]_vars
\* End has been pressed on a session with no row, after a sale of a session
\* was saved
C27_Witness ==
    /\ ev.op = "handleEndMeasurement" /\ rows = <<>> /\ Top = "measurement"
    /\ Len(LoadedSales(storage)) = 1
    /\ LoadedSales(storage)[1].rows # <<>>

\* C28: when deleteSale is rejected the displayed sales and the stored text
\* are as they were and the call is gone, so its sale is never taken off the
\* display; a delete comes to the code after its await only by its write.
C28_FailedDeleteKeepsDisplay ==
    [][/\ ev'.op = "deleteSaleRejected" =>
            /\ sales' = sales /\ storage' = storage
            /\ \E i \in 1..Len(calls) :
                  calls[i].op = "delete" /\ calls' = RemoveAt(calls, i)
       /\ \A i \in 1..Len(calls) :
            (Len(calls') = Len(calls) /\ calls[i].op = "delete"
               /\ calls[i].pc # "resume" /\ calls'[i].pc = "resume") => Wrote(i)
       /\ (ev'.op = "handleDelete" /\ sales' # sales) =>
            \E i \in 1..Len(calls) :
                /\ calls[i].op = "delete" /\ calls[i].pc = "resume"
                /\ calls' = RemoveAt(calls, i)
                /\ sales' = Without(sales, calls[i].arg)]_vars
\* a delete has been rejected and Home shows the one sale of the history
C28_Witness ==
    /\ ev.op = "deleteSaleRejected" /\ calls = <<>>
    /\ Len(sales) = 1 /\ sales = LoadedSales(storage)

\* ids, counts and finite weights of rs are those of qs, row by row
SameRows(rs, qs) ==
    /\ Len(rs) = Len(qs)
    /\ \A i \in 1..Len(rs) :
          /\ rs[i].id = qs[i].id /\ rs[i].pcs = qs[i].pcs
          /\ rs[i].timestamp = qs[i].timestamp
          /\ qs[i].weightKg.k = "fin" => rs[i].weightKg = qs[i].weightKg

\* the rows End was pressed on: those its dialog holds, the session's when
\* there is no dialog
EndedRows == IF alert.kind = "end" THEN alert.rows ELSE rows

\* C29: Back on the report writes nothing, starts no save and no delete and
\* leaves the session's rows as they are, the measurement screen on top when
\* the report was a session's; the report that End opens is of the rows the
\* session had when End was pressed, which no add or undo changes while the
\* dialog of End is open.
C29_BackKeepsSession ==
    [][/\ ev'.op = "reportBack" =>
            /\ storage' = storage /\ rows' = rows
            /\ \A i \in 1..Len(calls') :
                  IsWriter(calls'[i]) => i <= Len(calls) /\ calls'[i] = calls[i]
            /\ HasMeasurement => stack'[Len(stack')] = "measurement"
       /\ (ev'.op = "handleEndMeasurement" /\ alert'.kind = "end") =>
            alert'.rows = rows
       /\ (alert.kind = "end" /\ HasMeasurement') => rows' = rows
       /\ ev'.op = "doEnd" => SameRows(reportRows', EndedRows)]_vars
\* the report of a session of rows 1 and 3 is open: row 2 of its first report
\* was undone and row 3 added after a Back
C29_Witness ==
    /\ Top = "report" /\ ev.op = "doEnd" /\ storage = <<>>
    /\ IdsOf(reportRows) = <<3, 1>> /\ IdsOf(rows) = <<3, 1>>
    /\ reportRows[1].timestamp = 1 /\ reportNow = 1

\* C30: the rows of the session have timestamps that do not increase from
\* head to tail, and every sale saved or being saved has a createdAt not
\* before the timestamp of any of its rows.
TimeOrdered(s) == \A j \in 1..Len(s.rows) : s.rows[j].timestamp <= s.createdAt
C30_TimeOrdered ==
    /\ \A i \in 1..Len(rows) : \A j \in i..Len(rows) :
          rows[i].timestamp >= rows[j].timestamp
    /\ \A i \in 1..Len(LoadedSales(storage)) : TimeOrdered(LoadedSales(storage)[i])
    /\ \A i \in 1..Len(calls) : calls[i].op = "save" => TimeOrdered(calls[i].arg)
\* the history holds a sale made at time 1 of a row of time 1 over a row of
\* time 0
C30_Witness ==
    \E i \in 1..Len(LoadedSales(storage)) :
        LET s == LoadedSales(storage)[i]
        IN  /\ Len(s.rows) = 2 /\ s.createdAt = 1
            /\ s.rows[1].timestamp = 1 /\ s.rows[2].timestamp = 0

====
